---- MODULE Spec2Model ----
(***************************************************************************)
(* Model of src/debug/debug.py: a two-stream UDP video receiver.           *)
(* Per stream: a listener thread reassembles flag-delimited datagrams into *)
(* JPEG byte strings and hands them through a Queue(maxsize=1) to a decode *)
(* thread, which hands decoded images through a second Queue(maxsize=1) to *)
(* the display loop of main().  Every access to a shared object (a queue,  *)
(* the global `running`, the socket) is one step.                          *)
(***************************************************************************)
EXTENDS Integers, Sequences, FiniteSets, TLC

PORT_TOP == 50000
PORT_BOTTOM == 50001
Ports == {PORT_TOP, PORT_BOTTOM}

\* Bound of the model.
MaxSends == 2       \* datagrams the sockets deliver, all ports together

\* Payload fragments: none, one byte that starts a well-formed JPEG (255) and
\* one byte that does not (0).  A byte string decodes to an image iff it
\* starts with 255; every other string is a corrupt JPEG.
Payloads == {<<>>, <<255>>, <<0>>}
Flags == {0, 1, 2}

\* What recvfrom can return: a flag byte and a fragment, or nothing at all.
Datagrams == {<<>>} \cup {<<f>> \o pl : f \in Flags, pl \in Payloads}

\* data[1:] (the empty string for len(data) <= 1).
PayloadOf(data) == IF Len(data) <= 1 THEN <<>> ELSE Tail(data)

\* A length test that lets the 1-byte datagram through.
malformed_lt1(data) == Len(data) < 1

\* if len(data) < 2: continue
malformed(data) == Len(data) < 2

\* An extend that puts the new fragment in front.
extend_front(buffer, payload) == payload \o buffer

\* An assignment in place of the extend.
extend_replace(buffer, payload) == payload

\* frame_buffers[port].extend(payload)
extend(buffer, payload) == buffer \o payload

\* A flag test that takes every non-zero flag for the last fragment.
is_last_nonzero(flag) == flag # 0

\* if flag == 1:
is_last(flag) == flag = 1

\* frame_buffers[port].clear()
clear(buffer) == <<>>

NoneFrame == [none |-> TRUE]

\* cv2.imdecode: an image for a well-formed JPEG, None for corrupt bytes,
\* and (depending on the OpenCV build) None or a raised cv2.error for an
\* empty buffer.
imdecode(bytes) ==
    IF bytes = <<>> THEN {NoneFrame, [raised |-> TRUE]}
    ELSE IF bytes[1] = 255 THEN {[img |-> bytes]}
    ELSE {NoneFrame}

IsImage(fr) == "img" \in DOMAIN fr

\* A queue built without maxsize is never full.
full_unbounded(q) == FALSE

\* queue.Queue(maxsize=1) as a sequence of length <= 1.
full(q) == Len(q) >= 1
empty(q) == Len(q) = 0

\* Bookkeeping of a slot: how many put operations (counted up to 2) its
\* producer finished since its consumer last took from it, and the value the
\* latest of them was given; after a take returned x, how many puts that take
\* followed and whether x is the value given to the latest of them.
NoPuts == [n |-> 0, tookAfter |-> 0, latest |-> TRUE]
TakeLog(log, x) ==
    [n |-> 0, tookAfter |-> log.n, latest |-> (log.n = 0 \/ x = log.last)]
PutLog(log, x) == [n |-> IF log.n < 2 THEN log.n + 1 ELSE 2, last |-> x]

\* Bookkeeping of a stream's reassembly, since the buffer was last reset: the
\* payloads of the datagrams received, concatenated, and the shape of their
\* flags: "zeros" (every flag is 0), "closed" (zeros, then one datagram of at
\* least 2 bytes with flag 1), "short" (zeros, then the 1-byte datagram with
\* flag 1) or "other". "dropped" is the empty run that an error handler leaves
\* when it discarded a non-empty buffer.
NoRun == [payloads |-> <<>>, shape |-> "zeros"]
ErrRun(buffer) ==
    [payloads |-> <<>>, shape |-> IF buffer = <<>> THEN "zeros" ELSE "dropped"]
RunLog(run, data) ==
    [payloads |-> run.payloads \o PayloadOf(data),
     shape |-> IF run.shape \notin {"zeros", "dropped"} \/ Len(data) = 0 THEN "other"
               ELSE IF data[1] = 0 THEN "zeros"
               ELSE IF data[1] = 1 THEN (IF Len(data) >= 2 THEN "closed" ELSE "short")
               ELSE "other"]

VARIABLES
    running,     \* the global shutdown flag
    sent,        \* datagrams returned by recvfrom so far
    frame_buffers,
    raw_queues,
    frame_queues,
    sockOpen,    \* sockOpen[p]: the listener's socket is not closed
    lpc,         \* listener position
    jpeg_data,   \* the listener's local jpeg_data (<<>> once it is dead)
    wpc,         \* decode worker position
    wframe,      \* the worker's local frame (NoneFrame once it is dead)
    mpc,         \* position of main()
    windows,     \* TRUE until cv2.destroyAllWindows()
    shown,       \* shown[p]: images passed to cv2.imshow, in order
    hist,        \* hist[p]: RunLog of frame_buffers[p]
    rawPuts,     \* rawPuts[p]: PutLog of raw_queues[p]
    framePuts    \* framePuts[p]: PutLog of frame_queues[p]

listenerVars == <<frame_buffers, sockOpen, lpc, jpeg_data, hist>>
workerVars == <<wpc, wframe>>
mainVars == <<mpc, windows, shown>>
vars == <<running, sent, frame_buffers, raw_queues, frame_queues, sockOpen,
          lpc, jpeg_data, wpc, wframe, mpc, windows, shown, hist,
          rawPuts, framePuts>>

\* The daemon threads run only while the main thread is alive.
ProcessAlive == mpc \notin {"crashed", "exited"}

InitCommon ==
    /\ running = TRUE
    /\ sent = 0
    /\ frame_buffers = [p \in Ports |-> <<>>]
    /\ raw_queues = [p \in Ports |-> <<>>]
    /\ frame_queues = [p \in Ports |-> <<>>]
    /\ sockOpen = [p \in Ports |-> TRUE]
    /\ lpc = [p \in Ports |-> "bind"]
    /\ jpeg_data = [p \in Ports |-> <<>>]
    /\ wpc = [p \in Ports |-> "loop"]
    /\ wframe = [p \in Ports |-> NoneFrame]
    /\ mpc = "chkTop"
    /\ windows = TRUE
    /\ shown = [p \in Ports |-> <<>>]
    /\ hist = [p \in Ports |-> NoRun]
    /\ rawPuts = [p \in Ports |-> NoPuts]
    /\ framePuts = [p \in Ports |-> NoPuts]

Init == InitCommon

----------------------------------------------------------------------------
\* udp_listener

\* sock.bind succeeds.
ListenerBind(p) ==
    /\ ProcessAlive
    /\ lpc[p] = "bind"
    /\ lpc' = [lpc EXCEPT ![p] = "loop"]
    /\ UNCHANGED <<running, sent, frame_buffers, raw_queues, frame_queues,
                   sockOpen, jpeg_data, workerVars, mainVars, hist, rawPuts,
                   framePuts>>

\* sock.bind raises: the exception leaves the try block through finally.
ListenerBindFail(p) ==
    /\ ProcessAlive
    /\ lpc[p] = "bind"
    /\ lpc' = [lpc EXCEPT ![p] = "close"]
    /\ UNCHANGED <<running, sent, frame_buffers, raw_queues, frame_queues,
                   sockOpen, jpeg_data, workerVars, mainVars, hist, rawPuts,
                   framePuts>>

\* while running:
ListenerLoop(p) ==
    /\ ProcessAlive
    /\ lpc[p] = "loop"
    /\ lpc' = [lpc EXCEPT ![p] = IF running THEN "recv" ELSE "close"]
    /\ UNCHANGED <<running, sent, frame_buffers, raw_queues, frame_queues,
                   sockOpen, jpeg_data, workerVars, mainVars, hist, rawPuts,
                   framePuts>>

\* recvfrom returns data; the length test, extend, the flag test and the
\* hand-over of the buffer touch only the listener's own state.
Receive(p, data) ==
    /\ ProcessAlive
    /\ lpc[p] = "recv"
    /\ sent' = sent + 1
    /\ hist' = [hist EXCEPT ![p] = RunLog(@, data)]
    /\ LET flag == data[1]
           payload == PayloadOf(data)
           extended == extend(frame_buffers[p], payload)
       IN IF malformed(data)
          THEN /\ lpc' = [lpc EXCEPT ![p] = "loop"]
               /\ UNCHANGED <<frame_buffers, jpeg_data>>
          ELSE IF is_last(flag)
          THEN /\ jpeg_data' = [jpeg_data EXCEPT ![p] = extended]
               /\ frame_buffers' = [frame_buffers EXCEPT ![p] = clear(extended)]
               /\ lpc' = [lpc EXCEPT ![p] = "full"]
          ELSE /\ frame_buffers' = [frame_buffers EXCEPT ![p] = extended]
               /\ lpc' = [lpc EXCEPT ![p] = "loop"]
               /\ UNCHANGED jpeg_data
    /\ UNCHANGED <<running, raw_queues, frame_queues, sockOpen, workerVars,
                   mainVars, rawPuts, framePuts>>

\* The socket of port p delivers some datagram.
ListenerRecv(p) == sent < MaxSends /\ \E data \in Datagrams : Receive(p, data)

\* recvfrom raises socket.timeout: continue.
ListenerTimeout(p) ==
    /\ ProcessAlive
    /\ lpc[p] = "recv"
    /\ lpc' = [lpc EXCEPT ![p] = "loop"]
    /\ UNCHANGED <<running, sent, frame_buffers, raw_queues, frame_queues,
                   sockOpen, jpeg_data, workerVars, mainVars, hist, rawPuts,
                   framePuts>>

\* A handler that reports the error and keeps the buffer.
ListenerRecvErrorKeeps(p) ==
    /\ ProcessAlive
    /\ lpc[p] = "recv"
    /\ hist' = [hist EXCEPT ![p] = ErrRun(frame_buffers[p])]
    /\ lpc' = [lpc EXCEPT ![p] = "loop"]
    /\ UNCHANGED <<running, sent, frame_buffers, raw_queues, frame_queues,
                   sockOpen, jpeg_data, workerVars, mainVars, rawPuts,
                   framePuts>>

\* recvfrom raises another exception: except Exception clears the buffer.
ListenerRecvError(p) ==
    /\ ProcessAlive
    /\ lpc[p] = "recv"
    /\ frame_buffers' = [frame_buffers EXCEPT ![p] = <<>>]
    /\ hist' = [hist EXCEPT ![p] = ErrRun(frame_buffers[p])]
    /\ lpc' = [lpc EXCEPT ![p] = "loop"]
    /\ UNCHANGED <<running, sent, raw_queues, frame_queues, sockOpen,
                   jpeg_data, workerVars, mainVars, rawPuts, framePuts>>

\* if q.full():
ListenerFull(p) ==
    /\ ProcessAlive
    /\ lpc[p] = "full"
    /\ lpc' = [lpc EXCEPT ![p] = IF full(raw_queues[p]) THEN "discard" ELSE "put"]
    /\ UNCHANGED <<running, sent, frame_buffers, raw_queues, frame_queues,
                   sockOpen, jpeg_data, workerVars, mainVars, hist, rawPuts,
                   framePuts>>

\* A listener that looks at the unread frame without removing it.
ListenerDiscardKeeps(p) ==
    /\ ProcessAlive
    /\ lpc[p] = "discard"
    /\ IF empty(raw_queues[p])
       THEN /\ frame_buffers' = [frame_buffers EXCEPT ![p] = <<>>]
            /\ hist' = [hist EXCEPT ![p] = NoRun]
            /\ jpeg_data' = [jpeg_data EXCEPT ![p] = <<>>]
            /\ rawPuts' = [rawPuts EXCEPT ![p] = PutLog(@, jpeg_data[p])]
            /\ lpc' = [lpc EXCEPT ![p] = "loop"]
       ELSE /\ lpc' = [lpc EXCEPT ![p] = "put"]
            /\ UNCHANGED <<frame_buffers, hist, jpeg_data, rawPuts>>
    /\ UNCHANGED <<running, sent, raw_queues, frame_queues, sockOpen,
                   workerVars, mainVars, framePuts>>

\* q.get_nowait(): removes the unread frame, or raises queue.Empty, which
\* except Exception catches: the buffer is cleared and jpeg_data is dropped.
ListenerDiscard(p) ==
    /\ ProcessAlive
    /\ lpc[p] = "discard"
    /\ IF empty(raw_queues[p])
       THEN /\ frame_buffers' = [frame_buffers EXCEPT ![p] = <<>>]
            /\ hist' = [hist EXCEPT ![p] = NoRun]
            /\ jpeg_data' = [jpeg_data EXCEPT ![p] = <<>>]
            /\ rawPuts' = [rawPuts EXCEPT ![p] = PutLog(@, jpeg_data[p])]
            /\ lpc' = [lpc EXCEPT ![p] = "loop"]
            /\ UNCHANGED raw_queues
       ELSE /\ raw_queues' = [raw_queues EXCEPT ![p] = Tail(@)]
            /\ lpc' = [lpc EXCEPT ![p] = "put"]
            /\ UNCHANGED <<frame_buffers, hist, jpeg_data, rawPuts>>
    /\ UNCHANGED <<running, sent, frame_queues, sockOpen, workerVars,
                   mainVars, framePuts>>

\* q.put_nowait(jpeg_data): stores the frame, or raises queue.Full, which
\* except Exception catches.
ListenerPut(p) ==
    /\ ProcessAlive
    /\ lpc[p] = "put"
    /\ IF full(raw_queues[p])
       THEN /\ frame_buffers' = [frame_buffers EXCEPT ![p] = <<>>]
            /\ UNCHANGED raw_queues
       ELSE /\ raw_queues' = [raw_queues EXCEPT ![p] = Append(@, jpeg_data[p])]
            /\ UNCHANGED frame_buffers
    /\ hist' = [hist EXCEPT ![p] = NoRun]
    /\ rawPuts' = [rawPuts EXCEPT ![p] = PutLog(@, jpeg_data[p])]
    /\ jpeg_data' = [jpeg_data EXCEPT ![p] = <<>>]
    /\ lpc' = [lpc EXCEPT ![p] = "loop"]
    /\ UNCHANGED <<running, sent, frame_queues, sockOpen, workerVars,
                   mainVars, framePuts>>

\* finally: sock.close()
ListenerClose(p) ==
    /\ ProcessAlive
    /\ lpc[p] = "close"
    /\ sockOpen' = [sockOpen EXCEPT ![p] = FALSE]
    /\ lpc' = [lpc EXCEPT ![p] = "done"]
    /\ UNCHANGED <<running, sent, frame_buffers, raw_queues, frame_queues,
                   jpeg_data, workerVars, mainVars, hist, rawPuts, framePuts>>

----------------------------------------------------------------------------
\* decode_worker

\* while running:
WorkerLoop(p) ==
    /\ ProcessAlive
    /\ wpc[p] = "loop"
    /\ wpc' = [wpc EXCEPT ![p] = IF running THEN "get" ELSE "done"]
    /\ UNCHANGED <<running, sent, listenerVars, raw_queues, frame_queues,
                   wframe, mainVars, rawPuts, framePuts>>

\* A worker that leaves a frame it could not decode in the slot, to take it
\* again.
WorkerGetRetries(p) ==
    /\ ProcessAlive
    /\ wpc[p] = "get"
    /\ ~empty(raw_queues[p])
    /\ \E fr \in imdecode(Head(raw_queues[p])) :
          IF IsImage(fr)
          THEN /\ raw_queues' = [raw_queues EXCEPT ![p] = Tail(@)]
               /\ rawPuts' = [rawPuts EXCEPT ![p] = TakeLog(@, Head(raw_queues[p]))]
               /\ wframe' = [wframe EXCEPT ![p] = fr]
               /\ wpc' = [wpc EXCEPT ![p] = "full"]
          ELSE /\ wpc' = [wpc EXCEPT ![p] = "loop"]
               /\ UNCHANGED <<raw_queues, rawPuts, wframe>>
    /\ UNCHANGED <<running, sent, listenerVars, frame_queues, mainVars,
                   framePuts>>

\* raw_queues[port].get(timeout=0.5) returns the frame in the slot; the
\* worker passes it to cv2.imdecode and tests the result, all on its own
\* state.  A None result and a raised exception both lead back to the loop.
WorkerGet(p) ==
    /\ ProcessAlive
    /\ wpc[p] = "get"
    /\ ~empty(raw_queues[p])
    /\ raw_queues' = [raw_queues EXCEPT ![p] = Tail(@)]
    /\ rawPuts' = [rawPuts EXCEPT ![p] = TakeLog(@, Head(raw_queues[p]))]
    /\ \E fr \in imdecode(Head(raw_queues[p])) :
          IF IsImage(fr)
          THEN /\ wframe' = [wframe EXCEPT ![p] = fr]
               /\ wpc' = [wpc EXCEPT ![p] = "full"]
          ELSE /\ wpc' = [wpc EXCEPT ![p] = "loop"]
               /\ UNCHANGED wframe
    /\ UNCHANGED <<running, sent, listenerVars, frame_queues, mainVars,
                   framePuts>>

\* the wait of get(timeout=0.5) expires: except Empty: continue.
WorkerGetTimeout(p) ==
    /\ ProcessAlive
    /\ wpc[p] = "get"
    /\ empty(raw_queues[p])
    /\ wpc' = [wpc EXCEPT ![p] = "loop"]
    /\ UNCHANGED <<running, sent, listenerVars, raw_queues, frame_queues,
                   wframe, mainVars, rawPuts, framePuts>>

\* if q.full():
WorkerFull(p) ==
    /\ ProcessAlive
    /\ wpc[p] = "full"
    /\ wpc' = [wpc EXCEPT ![p] = IF full(frame_queues[p]) THEN "discard" ELSE "put"]
    /\ UNCHANGED <<running, sent, listenerVars, raw_queues, frame_queues,
                   wframe, mainVars, rawPuts, framePuts>>

\* q.get_nowait(): removes the unread image, or raises queue.Empty, which
\* except Empty turns into continue: the decoded frame is dropped.
WorkerDiscard(p) ==
    /\ ProcessAlive
    /\ wpc[p] = "discard"
    /\ IF empty(frame_queues[p])
       THEN /\ wpc' = [wpc EXCEPT ![p] = "loop"]
            /\ wframe' = [wframe EXCEPT ![p] = NoneFrame]
            /\ framePuts' = [framePuts EXCEPT ![p] = PutLog(@, wframe[p])]
            /\ UNCHANGED frame_queues
       ELSE /\ frame_queues' = [frame_queues EXCEPT ![p] = Tail(@)]
            /\ wpc' = [wpc EXCEPT ![p] = "put"]
            /\ UNCHANGED <<wframe, framePuts>>
    /\ UNCHANGED <<running, sent, listenerVars, raw_queues, mainVars,
                   rawPuts>>

\* q.put_nowait(frame): stores the image, or raises queue.Full, which
\* except Exception catches.
WorkerPut(p) ==
    /\ ProcessAlive
    /\ wpc[p] = "put"
    /\ IF full(frame_queues[p])
       THEN UNCHANGED frame_queues
       ELSE frame_queues' = [frame_queues EXCEPT ![p] = Append(@, wframe[p])]
    /\ framePuts' = [framePuts EXCEPT ![p] = PutLog(@, wframe[p])]
    /\ wframe' = [wframe EXCEPT ![p] = NoneFrame]
    /\ wpc' = [wpc EXCEPT ![p] = "loop"]
    /\ UNCHANGED <<running, sent, listenerVars, raw_queues, mainVars,
                   rawPuts>>

----------------------------------------------------------------------------
\* main

\* Positions of the two polls of the display tick, in program order.
ChkPc(p) == IF p = PORT_TOP THEN "chkTop" ELSE "chkBot"
GetPc(p) == IF p = PORT_TOP THEN "getTop" ELSE "getBot"
AfterPc(p) == IF p = PORT_TOP THEN "chkBot" ELSE "key"
LoopPcs == {"chkTop", "getTop", "chkBot", "getBot", "key"}

\* if not frame_queues[port].empty():
MainEmpty(p) ==
    /\ mpc = ChkPc(p)
    /\ mpc' = IF empty(frame_queues[p]) THEN AfterPc(p) ELSE GetPc(p)
    /\ UNCHANGED <<running, sent, listenerVars, raw_queues, frame_queues,
                   workerVars, windows, shown, rawPuts, framePuts>>

\* A display that shows the frame in the slot without taking it out.
MainGetPeeks(p) ==
    /\ mpc = GetPc(p)
    /\ IF empty(frame_queues[p])
       THEN /\ mpc' = "crashed"
            /\ UNCHANGED <<shown, framePuts>>
       ELSE /\ shown' = [shown EXCEPT ![p] = Append(@, Head(frame_queues[p]))]
            /\ framePuts' = [framePuts EXCEPT ![p] = TakeLog(@, Head(frame_queues[p]))]
            /\ mpc' = AfterPc(p)
    /\ UNCHANGED <<running, sent, listenerVars, raw_queues, frame_queues,
                   workerVars, windows, rawPuts>>

\* frame = frame_queues[port].get_nowait(); cv2.imshow(name, frame).
\* queue.Empty is not caught in main(): it ends the main thread, and with it
\* the process.
MainGet(p) ==
    /\ mpc = GetPc(p)
    /\ IF empty(frame_queues[p])
       THEN /\ mpc' = "crashed"
            /\ UNCHANGED <<frame_queues, shown, framePuts>>
       ELSE /\ shown' = [shown EXCEPT ![p] = Append(@, Head(frame_queues[p]))]
            /\ frame_queues' = [frame_queues EXCEPT ![p] = Tail(@)]
            /\ framePuts' = [framePuts EXCEPT ![p] = TakeLog(@, Head(frame_queues[p]))]
            /\ mpc' = AfterPc(p)
    /\ UNCHANGED <<running, sent, listenerVars, raw_queues, workerVars,
                   windows, rawPuts>>

\* cv2.waitKey(1) returns another key or none: the next pass of the loop
\* reads the clock and either starts a display tick or comes back here.
MainWaitKey ==
    /\ mpc = "key"
    /\ \E next \in {"key", "chkTop"} : mpc' = next
    /\ UNCHANGED <<running, sent, listenerVars, raw_queues, frame_queues,
                   workerVars, windows, shown, rawPuts, framePuts>>

\* cv2.waitKey(1) returns 'q': break; running = False
MainQuit ==
    /\ mpc = "key"
    /\ running' = FALSE
    /\ mpc' = "sleep"
    /\ UNCHANGED <<sent, listenerVars, raw_queues, frame_queues, workerVars,
                   windows, shown, rawPuts, framePuts>>

\* except KeyboardInterrupt: pass; running = False
MainInterrupt ==
    /\ mpc \in LoopPcs
    /\ running' = FALSE
    /\ mpc' = "sleep"
    /\ UNCHANGED <<sent, listenerVars, raw_queues, frame_queues, workerVars,
                   windows, shown, rawPuts, framePuts>>

\* time.sleep(0.5) returns; cv2.destroyAllWindows(); main() returns and the
\* interpreter exits without joining the daemon threads.
MainDestroy ==
    /\ mpc = "sleep"
    /\ windows' = FALSE
    /\ mpc' = "exited"
    /\ UNCHANGED <<running, sent, listenerVars, raw_queues, frame_queues,
                   workerVars, shown, rawPuts, framePuts>>

-------------------------
Listener(p) ==
    \/ ListenerBind(p)
    \/ ListenerBindFail(p)
    \/ ListenerLoop(p)
    \/ ListenerRecv(p)
    \/ ListenerTimeout(p)
    \/ ListenerRecvError(p)
    \/ ListenerFull(p)
    \/ ListenerDiscard(p)
    \/ ListenerPut(p)
    \/ ListenerClose(p)

Worker(p) ==
    \/ WorkerLoop(p)
    \/ WorkerGet(p)
    \/ WorkerGetTimeout(p)
    \/ WorkerFull(p)
    \/ WorkerDiscard(p)
    \/ WorkerPut(p)

Display ==
    \/ \E p \in Ports : MainEmpty(p)
    \/ \E p \in Ports : MainGet(p)
    \/ MainWaitKey

Shutdown ==
    \/ MainQuit
    \/ MainInterrupt
    \/ MainDestroy

Next ==
    \/ \E p \in Ports : Listener(p)
    \/ \E p \in Ports : Worker(p)
    \/ Display
    \/ Shutdown

Spec == Init /\ [][Next]_vars

----------------------------------------------------------------------------
\* Scenario of the decode-failure test: the socket of PORT_TOP delivers one
\* complete corrupt frame, then one complete valid frame, and nothing else;
\* nobody asks the display loop to stop, no bind and no recvfrom fails.  Only
\* one frame decodes, so the worker never finds the decoded slot full and its
\* get_nowait (WorkerDiscard) is never reached.
IsoFeed == << <<1, 0>>, <<1, 255>> >>

FeedRecv == sent < Len(IsoFeed) /\ Receive(PORT_TOP, IsoFeed[sent + 1])

NextIso ==
    \/ FeedRecv
    \/ \E p \in Ports : ListenerBind(p)
    \/ \E p \in Ports : ListenerLoop(p)
    \/ \E p \in Ports : ListenerTimeout(p)
    \/ \E p \in Ports : ListenerFull(p)
    \/ \E p \in Ports : ListenerDiscard(p)
    \/ \E p \in Ports : ListenerPut(p)
    \/ \E p \in Ports : WorkerLoop(p)
    \/ \E p \in Ports : WorkerGet(p)
    \/ \E p \in Ports : WorkerGetTimeout(p)
    \/ \E p \in Ports : WorkerFull(p)
    \/ \E p \in Ports : WorkerPut(p)
    \/ Display

SpecIso == Init /\ [][NextIso]_vars

\* Scenario of the stalled stream: PORT_TOP never receives a datagram.
NextStall ==
    \/ ListenerRecv(PORT_BOTTOM)
    \/ \E p \in Ports : ListenerBind(p)
    \/ \E p \in Ports : ListenerBindFail(p)
    \/ \E p \in Ports : ListenerLoop(p)
    \/ \E p \in Ports : ListenerTimeout(p)
    \/ \E p \in Ports : ListenerRecvError(p)
    \/ \E p \in Ports : ListenerFull(p)
    \/ \E p \in Ports : ListenerDiscard(p)
    \/ \E p \in Ports : ListenerPut(p)
    \/ \E p \in Ports : ListenerClose(p)
    \/ \E p \in Ports : Worker(p)
    \/ Display
    \/ Shutdown

SpecStall == Init /\ [][NextStall]_vars

\* Scenario of the lost final fragment: the sender of PORT_TOP sends frame k
\* as <<0, 0>>, <<1, 255>>, frame k+1 as <<0, 255>>, <<1, 0>> and frame k+2
\* as <<1, 255>>; the flag-1 datagram of frame k is lost on the way, the
\* socket delivers the other four in order and nothing else.  Nobody asks the
\* display loop to stop, no bind and no recvfrom fails.  Only frame k+2
\* decodes, so WorkerDiscard is never reached.
LostFeed == << <<0, 0>>, <<0, 255>>, <<1, 0>>, <<1, 255>> >>

LostRecv == sent < Len(LostFeed) /\ Receive(PORT_TOP, LostFeed[sent + 1])

NextLost ==
    \/ LostRecv
    \/ \E p \in Ports : ListenerBind(p)
    \/ \E p \in Ports : ListenerLoop(p)
    \/ \E p \in Ports : ListenerTimeout(p)
    \/ \E p \in Ports : ListenerFull(p)
    \/ \E p \in Ports : ListenerDiscard(p)
    \/ \E p \in Ports : ListenerPut(p)
    \/ \E p \in Ports : WorkerLoop(p)
    \/ \E p \in Ports : WorkerGet(p)
    \/ \E p \in Ports : WorkerGetTimeout(p)
    \/ \E p \in Ports : WorkerFull(p)
    \/ \E p \in Ports : WorkerPut(p)
    \/ Display

SpecLost == Init /\ [][NextLost]_vars

\* Scenario of three frames in a row: the socket of PORT_TOP delivers the
\* valid frames <<255>> (one datagram), <<255, 0>> and <<255, 255>> (two
\* datagrams each), and nothing else.  Nobody asks the display loop to stop,
\* no bind and no recvfrom fails.
OrderFeed == << <<1, 255>>, <<0, 255>>, <<1, 0>>, <<0, 255>>, <<1, 255>> >>

OrderRecv == sent < Len(OrderFeed) /\ Receive(PORT_TOP, OrderFeed[sent + 1])

NextOrder ==
    \/ OrderRecv
    \/ \E p \in Ports : ListenerBind(p)
    \/ \E p \in Ports : ListenerLoop(p)
    \/ \E p \in Ports : ListenerTimeout(p)
    \/ \E p \in Ports : ListenerFull(p)
    \/ \E p \in Ports : ListenerDiscard(p)
    \/ \E p \in Ports : ListenerPut(p)
    \/ \E p \in Ports : Worker(p)
    \/ Display

SpecOrder == Init /\ [][NextOrder]_vars

----------------------------------------------------------------------------
\* Properties

\* Positions of a producer inside its put: the full() test, the get_nowait()
\* that discards the unread item, the put_nowait().
PutPcs == {"full", "discard", "put"}

\* C1: whenever the listener finishes publishing a completed frame (it leaves
\* the full/get_nowait/put_nowait sequence), that frame is the content of the
\* stream's raw slot: the put never fails, whatever the decode worker does
\* meanwhile.
C1_RawPutAlwaysSucceeds ==
    [][\A p \in Ports :
          (lpc[p] \in PutPcs /\ lpc'[p] = "loop")
              => raw_queues'[p] = <<jpeg_data[p]>>]_vars

\* C2: whenever the decode worker finishes publishing a decoded frame, that
\* frame is the content of the stream's decoded slot: the put never drops it,
\* whatever the display loop does meanwhile.
C2_FramePutAlwaysSucceeds ==
    [][\A p \in Ports :
          (wpc[p] \in PutPcs /\ wpc'[p] = "loop")
              => frame_queues'[p] = <<wframe[p]>>]_vars

\* C3: a poll of a decoded slot by the display loop never raises an error
\* that stops the display loop.
C3_PollNeverStopsDisplay == mpc # "crashed"

\* C4: latest-wins, for both slots: a take that follows two or more finished
\* puts of the producer, with no take between them, returns the item given
\* to the latest of those puts.
C4_LatestWins ==
    \A p \in Ports :
        /\ (rawPuts[p].n = 0 /\ rawPuts[p].tookAfter = 2) => rawPuts[p].latest
        /\ (framePuts[p].n = 0 /\ framePuts[p].tookAfter = 2) => framePuts[p].latest

\* The display loop has taken from a decoded slot after two puts by the
\* decode worker and no take between them.
C4_Witness ==
    \E p \in Ports : framePuts[p].n = 0 /\ framePuts[p].tookAfter = 2

\* The same for a raw slot and the decode worker.
C4_WitnessRaw ==
    \E p \in Ports : rawPuts[p].n = 0 /\ rawPuts[p].tookAfter = 2

\* C5 as stated: once the datagrams received since the buffer was last reset
\* have flags [0,...,0,1], the listener is publishing the concatenation of
\* their payloads and the buffer is empty.
C5_Original ==
    \A p \in Ports :
        hist[p].shape \in {"closed", "short"}
            => /\ lpc[p] \in PutPcs
               /\ jpeg_data[p] = hist[p].payloads
               /\ frame_buffers[p] = <<>>

\* C5 amended: the same, provided the final (flag 1) datagram has at least
\* 2 bytes.
C5_ReassemblyCorrect ==
    \A p \in Ports :
        hist[p].shape = "closed"
            => /\ lpc[p] \in PutPcs
               /\ jpeg_data[p] = hist[p].payloads
               /\ frame_buffers[p] = <<>>

\* A frame of two fragments with flags [0, 1] is about to be stored.
C5_Witness ==
    \E p \in Ports :
        /\ hist[p].shape = "closed"
        /\ Len(hist[p].payloads) = 2
        /\ lpc[p] = "put"

\* C6 as stated: after the 1-byte datagram with flag 1 arrived at an empty
\* buffer, the listener is publishing a zero-length frame.
C6_Original ==
    \A p \in Ports :
        (hist[p].shape = "short" /\ hist[p].payloads = <<>>)
            => (lpc[p] \in PutPcs /\ jpeg_data[p] = <<>>)

\* C6 amended: the 1-byte datagram with flag 1, received while the buffer is
\* empty, is dropped: the listener goes back to its loop, the buffer stays
\* empty, no frame is handed to the raw slot, and both slots are unchanged.
C6_EmptyFrameDropped ==
    [][\A p \in Ports :
          (Receive(p, <<1>>) /\ frame_buffers[p] = <<>>)
              => /\ lpc'[p] = "loop"
                 /\ frame_buffers'[p] = <<>>
                 /\ jpeg_data'[p] = jpeg_data[p]
                 /\ raw_queues' = raw_queues
                 /\ frame_queues' = frame_queues]_vars

\* The 1-byte datagram with flag 1 has been received at an empty buffer.
C6_Witness ==
    \E p \in Ports :
        /\ hist[p].shape = "short"
        /\ hist[p].payloads = <<>>
        /\ frame_buffers[p] = <<>>
        /\ lpc[p] = "loop"

\* The pipeline of PORT_TOP has nothing left to do.
IsoDrained ==
    /\ sent = Len(IsoFeed)
    /\ lpc[PORT_TOP] \in {"loop", "recv"}
    /\ raw_queues[PORT_TOP] = <<>>
    /\ wpc[PORT_TOP] \in {"loop", "get"}
    /\ frame_queues[PORT_TOP] = <<>>
    /\ mpc # GetPc(PORT_TOP)

\* C7: fed a corrupt frame and then a valid one, the pipeline does not crash,
\* never displays anything but the valid frame, and has displayed exactly
\* that frame once it has nothing left to do.
C7_DecodeFailureIsolation ==
    /\ mpc # "crashed"
    /\ shown[PORT_TOP] \in {<<>>, <<[img |-> <<255>>]>>}
    /\ IsoDrained => shown[PORT_TOP] = <<[img |-> <<255>>]>>

\* C8: render resources are released only after every listener and every
\* decode worker has terminated.
C8_ShutdownOrdering ==
    ~windows => \A p \in Ports : lpc[p] = "done" /\ wpc[p] = "done"

\* C9: after the shutdown flag is set, every listener and every decode worker
\* leaves its loop and every listener closes its socket: by the time main()
\* has returned, they all have.
C9_ShutdownTermination ==
    mpc = "exited"
        => \A p \in Ports : lpc[p] = "done" /\ ~sockOpen[p] /\ wpc[p] = "done"

\* C10: while PORT_TOP receives nothing, every display tick that finds a
\* frame in the decoded slot of PORT_BOTTOM renders one more frame of
\* PORT_BOTTOM (unless the user interrupts), and nothing is ever rendered
\* for PORT_TOP.
C10_StreamIndependence ==
    [][/\ (mpc = GetPc(PORT_BOTTOM) /\ mpc' \notin {GetPc(PORT_BOTTOM), "sleep"})
            => Len(shown'[PORT_BOTTOM]) = Len(shown[PORT_BOTTOM]) + 1
       /\ shown'[PORT_TOP] = <<>>]_vars

\* C11: receiving a datagram of fewer than 2 bytes, whatever its flag byte,
\* changes neither the reassembly buffer nor a slot, publishes nothing and
\* leaves the listener in its loop.
C11_MalformedDropped ==
    [][\A p \in Ports : \A d \in Datagrams :
          (Len(d) < 2 /\ Receive(p, d))
              => /\ frame_buffers' = frame_buffers
                 /\ raw_queues' = raw_queues
                 /\ frame_queues' = frame_queues
                 /\ jpeg_data' = jpeg_data
                 /\ lpc'[p] = "loop"]_vars

\* Only datagrams of fewer than 2 bytes, one of them without the flag 0 or 1,
\* have been received since the last reset of a buffer that holds a fragment.
C11_Witness ==
    \E p \in Ports :
        /\ hist[p].shape = "other"
        /\ hist[p].payloads = <<>>
        /\ lpc[p] = "loop"
        /\ \E q \in Ports : frame_buffers[q] # <<>>

\* C12: in every reachable state each Raw Frame Slot and each Decoded Frame
\* Slot holds at most one item.
C12_SlotCapacity ==
    \A p \in Ports : Len(raw_queues[p]) <= 1 /\ Len(frame_queues[p]) <= 1

\* Two puts have finished on a slot with no take between them, and the slot
\* holds one item.
C12_Witness ==
    \E p \in Ports :
        \/ rawPuts[p].n = 2 /\ Len(raw_queues[p]) = 1
        \/ framePuts[p].n = 2 /\ Len(frame_queues[p]) = 1

\* C13: an error other than a timeout inside the receive loop (recvfrom
\* raising, or the get_nowait() of the put finding the slot empty) leaves the
\* reassembly buffer empty and the listener at its loop test; a receive
\* timeout leaves the buffer unchanged and the listener at its loop test.
C13_ReceiveErrorHandling ==
    [][\A p \in Ports :
          /\ ListenerRecvError(p)
                 => frame_buffers'[p] = <<>> /\ lpc'[p] = "loop"
          /\ (lpc[p] = "discard" /\ empty(raw_queues[p]) /\ lpc'[p] # "discard")
                 => frame_buffers'[p] = <<>> /\ lpc'[p] = "loop"
          /\ ListenerTimeout(p)
                 => frame_buffers'[p] = frame_buffers[p] /\ lpc'[p] = "loop"]_vars

\* An error discarded a non-empty buffer and the listener is receiving again.
C13_Witness ==
    \E p \in Ports :
        /\ hist[p].shape = "dropped"
        /\ frame_buffers[p] = <<>>
        /\ lpc[p] = "recv"

\* C14: a listener whose bind failed (it is past its loop while the shutdown
\* flag is still unset) never publishes a frame and ends with its socket
\* closed, while the decode workers and the display loop keep running.
C14_BindFailureIsolated ==
    \A a \in Ports :
        (running /\ lpc[a] \in {"close", "done"})
            => /\ raw_queues[a] = <<>> /\ rawPuts[a] = NoPuts
               /\ frame_queues[a] = <<>> /\ shown[a] = <<>>
               /\ lpc[a] = "done" => ~sockOpen[a]
               /\ \A p \in Ports : wpc[p] # "done"
               /\ mpc # "crashed"

\* C15: a step in which the decode worker takes a frame removes it from the
\* raw slot for good and decodes it once: if it decodes, the image is what
\* the worker goes on to put; if decoding fails, the decoded slot is left as
\* it was, the worker holds no frame and is back at its loop test.
C15_NoRetry ==
    [][\A p \in Ports :
          (wpc[p] = "get" /\ ~empty(raw_queues[p]) /\ wpc'[p] # "get")
              => /\ raw_queues'[p] = <<>>
                 /\ frame_queues' = frame_queues
                 /\ IF \E fr \in imdecode(Head(raw_queues[p])) : IsImage(fr)
                    THEN /\ wframe'[p] = [img |-> Head(raw_queues[p])]
                         /\ wpc'[p] = "full"
                    ELSE /\ wframe'[p] = NoneFrame
                         /\ wpc'[p] = "loop"]_vars

\* The worker took a frame, put nothing, and is waiting for the next one.
C15_Witness ==
    \E p \in Ports :
        /\ rawPuts[p].n = 0 /\ rawPuts[p].tookAfter >= 1
        /\ framePuts[p] = NoPuts
        /\ frame_queues[p] = <<>> /\ shown[p] = <<>>
        /\ wpc[p] = "get"

\* C16: receiving a datagram of at least 2 bytes whose flag byte is neither
\* 0 nor 1 appends its payload to the reassembly buffer and publishes
\* nothing, as for flag 0.
C16_UndefinedFlag ==
    [][\A p \in Ports : \A d \in Datagrams :
          (Len(d) >= 2 /\ d[1] \notin {0, 1} /\ Receive(p, d))
              => /\ frame_buffers'[p] = frame_buffers[p] \o Tail(d)
                 /\ jpeg_data' = jpeg_data
                 /\ raw_queues' = raw_queues
                 /\ lpc'[p] = "loop"]_vars

\* Two fragments, at least one of them with a flag other than 0 and 1, are
\* both in the buffer.
C16_Witness ==
    \E p \in Ports :
        /\ hist[p].shape = "other"
        /\ Len(hist[p].payloads) = 2
        /\ frame_buffers[p] = hist[p].payloads
        /\ lpc[p] = "loop"

\* C17: whenever the listener is not inside a put, the reassembly buffer is
\* the concatenation, in arrival order, of the payloads of the datagrams
\* received since the last completed frame or error reset; it is empty while
\* the completed frame is being put and right after an error discarded it.
C17_BufferInvariant ==
    \A p \in Ports :
        /\ lpc[p] \notin PutPcs => frame_buffers[p] = hist[p].payloads
        /\ lpc[p] \in PutPcs => frame_buffers[p] = <<>>
        /\ hist[p].shape = "dropped" => frame_buffers[p] = <<>>

\* Two fragments have been appended since the last reset.
C17_Witness ==
    \E p \in Ports :
        /\ Len(frame_buffers[p]) = 2
        /\ frame_buffers[p][1] # frame_buffers[p][2]
        /\ lpc[p] = "recv"

\* C18: in the lost-final-fragment scenario nothing is published before
\* frame k+1 completes (the third delivered datagram); the frame published
\* then is the fragment received of frame k followed by the fragments of
\* frame k+1; the frame published next (the fourth datagram) is frame k+2
\* exactly: it is what the listener hands to the put, and what the raw slot
\* holds once the put is over, until the worker takes it.
C18_LostFinalFragment ==
    LET p == PORT_TOP
        merged == <<0, 255, 0>>
        after == <<255>>
        current == IF sent = 3 THEN merged ELSE after
    IN /\ sent < 3 => /\ lpc[p] \notin PutPcs
                      /\ raw_queues[p] = <<>>
                      /\ rawPuts[p] = NoPuts
       /\ sent >= 3 => (lpc[p] \in PutPcs \/ rawPuts[p] # NoPuts)
       /\ lpc[p] \in PutPcs => jpeg_data[p] = current
       /\ raw_queues[p] # <<>> => Head(raw_queues[p]) \in {merged, current}
       /\ (sent >= 3 /\ lpc[p] \notin PutPcs /\ rawPuts[p].n >= 1)
             => raw_queues[p] = <<current>>

\* C19: in the three-frame scenario, under every interleaving, the images
\* rendered for the stream are, in order, some of the frames completed so
\* far, each at most once and none after a frame completed later; and every
\* frame the display loop took was the one given to the latest put on the
\* decoded slot.
C19_InOrderDelivery ==
    LET p == PORT_TOP
        frames == << <<255>>, <<255, 0>>, <<255, 255>> >>
        completed == IF sent >= 5 THEN 3 ELSE IF sent >= 3 THEN 2
                     ELSE IF sent >= 1 THEN 1 ELSE 0
        n == Len(shown[p])
    IN /\ \E f \in [1..n -> 1..completed] :
              /\ \A i \in 1..n : shown[p][i] = [img |-> frames[f[i]]]
              /\ \A i, j \in 1..n : i < j => f[i] < f[j]
       /\ (framePuts[p].n = 0 /\ framePuts[p].tookAfter >= 1)
              => framePuts[p].latest

\* The first and the third frame have been rendered, the second was skipped.
C19_Witness ==
    shown[PORT_TOP] = << [img |-> <<255>>], [img |-> <<255, 255>>] >>

\* C20: every compressed frame in a raw slot, every frame the listener is
\* putting and every image decoded from one has at least one byte.
C20_FramesNonEmpty ==
    \A p \in Ports :
        /\ \A i \in 1..Len(raw_queues[p]) : Len(raw_queues[p][i]) >= 1
        /\ lpc[p] \in PutPcs => Len(jpeg_data[p]) >= 1
        /\ IsImage(wframe[p]) => Len(wframe[p].img) >= 1

\* A frame of one byte is in the raw slot of a stream that received two
\* datagrams.
C20_Witness ==
    \E p \in Ports :
        /\ sent = 2
        /\ raw_queues[p] # <<>>
        /\ Len(Head(raw_queues[p])) = 1
        /\ \A q \in Ports \ {p} : lpc[q] = "bind"

====
